---- MODULE Spec2Model ----
(***************************************************************************)
(* The `oi` command of koishi-plugin-oi-contest-sniffer: three provider    *)
(* tasks (Codeforces, AtCoder, Luogu) run concurrently, their records are  *)
(* normalised, tagged, retention-filtered (fetchContests), then filtered,  *)
(* sorted and capped (processContests) and a reply is produced (apply).    *)
(*                                                                         *)
(* The repository holds the plugin three times: "sniffer" is               *)
(* src/unnamed/part_000 (the current plugin, name 'oi-contest-sniffer'),   *)
(* "contests1" is src/unnamed/part_001 and "contests0" is src/src/index.ts *)
(* (both named 'coding-contests').                                         *)
(*                                                                         *)
(* JavaScript strings are sequences of one-character strings, so that      *)
(* toLowerCase, includes, the date regex and Date parsing are computed.    *)
(* JavaScript numbers are records [t, v]: a number, NaN, undefined, null.  *)
(***************************************************************************)
EXTENDS Integers, Sequences, FiniteSets, TLC

VARIABLES variant, config, options, now, tzOffset, http,
          pc, task, result, contests, processed, reply, output

vars == <<variant, config, options, now, tzOffset, http,
          pc, task, result, contests, processed, reply, output>>

-----------------------------------------------------------------------------
(* JavaScript values *)

Num(n) == [t |-> "num", v |-> n]
NaN == [t |-> "nan", v |-> 0]
Undefined == [t |-> "undef", v |-> 0]
Null == [t |-> "null", v |-> 0]
Infinity == [t |-> "inf", v |-> 1]          \* -Infinity has v = -1

IsNum(x) == x.t = "num"
IsInf(x) == x.t = "inf"

\* ToNumber: undefined -> NaN, null -> +0.
ToNumber(x) ==
  CASE x.t \in {"num", "inf"} -> x
    [] x.t = "null" -> Num(0)
    [] OTHER -> NaN

\* ToBoolean: 0, NaN, undefined and null are falsy.
Truthy(x) == (x.t = "num" /\ x.v # 0) \/ x.t = "inf"

\* -x of a number.
Neg(x) == IF x.t = "nan" THEN NaN ELSE [t |-> x.t, v |-> -x.v]

\* x + y of two numbers: NaN is contagious, Infinity - Infinity is NaN.
Plus(x, y) ==
  IF x.t = "nan" \/ y.t = "nan" THEN NaN
  ELSE IF IsInf(x) THEN (IF IsInf(y) /\ y.v # x.v THEN NaN ELSE x)
  ELSE IF IsInf(y) THEN y
  ELSE Num(x.v + y.v)

\* x < y of two numbers, neither NaN.
Less(x, y) ==
  IF IsInf(x) THEN x.v < 0 /\ ~(IsInf(y) /\ y.v < 0)
  ELSE IF IsInf(y) THEN y.v > 0
  ELSE x.v < y.v

\* a + b and a - b.
Add(a, b) == Plus(ToNumber(a), ToNumber(b))

Sub(a, b) == Plus(ToNumber(a), Neg(ToNumber(b)))

\* a > b, a < b, a >= b: every comparison with NaN is false.
Lt(a, b) ==
  /\ ToNumber(a).t # "nan" /\ ToNumber(b).t # "nan"
  /\ Less(ToNumber(a), ToNumber(b))
Gt(a, b) == Lt(b, a)
Ge(a, b) ==
  /\ ToNumber(a).t # "nan" /\ ToNumber(b).t # "nan"
  /\ ~Less(ToNumber(a), ToNumber(b))

-----------------------------------------------------------------------------
(* JavaScript strings *)

UpperChars == <<"A","B","C","D","E","F","G","H","I","J","K","L","M",
                "N","O","P","Q","R","S","T","U","V","W","X","Y","Z">>
LowerChars == <<"a","b","c","d","e","f","g","h","i","j","k","l","m",
                "n","o","p","q","r","s","t","u","v","w","x","y","z">>
Digits == <<"0","1","2","3","4","5","6","7","8","9">>

\* A character outside ASCII is written as the one-element string "U+XXXX"
\* of its code point in hexadecimal: "U+00C4" is the letter A with
\* diaeresis, "U+6D1B" the first character of the key of line 55.  The
\* grave accent, which a string of this notation cannot hold, is "U+0060".
\* The alphabet of the model is ASCII, Latin-1 (U+00A0..U+00FF), Greek
\* (U+0370..U+03FF), Cyrillic (U+0400..U+045F), the fullwidth Latin letters
\* (U+FF21..U+FF3A, U+FF41..U+FF5A), U+0130, U+0131, U+0307, the Kelvin
\* sign U+212A, the Angstrom sign U+212B and the two characters of line 55.

\* The upper-case letters of the alphabet outside ASCII whose lower case is
\* one character, and below, at the same index, that lower case (Unicode
\* toLowercase, UnicodeData).  U+0130 and U+03A3 are not listed: the first
\* becomes two characters (SpecialCasing), the lower case of the second
\* depends on its place in the word.
UpperTable ==
  <<
    "U+00C0", "U+00C1", "U+00C2", "U+00C3", "U+00C4", "U+00C5",
    "U+00C6", "U+00C7", "U+00C8", "U+00C9", "U+00CA", "U+00CB",
    "U+00CC", "U+00CD", "U+00CE", "U+00CF", "U+00D0", "U+00D1",
    "U+00D2", "U+00D3", "U+00D4", "U+00D5", "U+00D6", "U+00D8",
    "U+00D9", "U+00DA", "U+00DB", "U+00DC", "U+00DD", "U+00DE",
    "U+0370", "U+0372", "U+0376", "U+037F", "U+0386", "U+0388",
    "U+0389", "U+038A", "U+038C", "U+038E", "U+038F", "U+0391",
    "U+0392", "U+0393", "U+0394", "U+0395", "U+0396", "U+0397",
    "U+0398", "U+0399", "U+039A", "U+039B", "U+039C", "U+039D",
    "U+039E", "U+039F", "U+03A0", "U+03A1", "U+03A4", "U+03A5",
    "U+03A6", "U+03A7", "U+03A8", "U+03A9", "U+03AA", "U+03AB",
    "U+03CF", "U+03D8", "U+03DA", "U+03DC", "U+03DE", "U+03E0",
    "U+03E2", "U+03E4", "U+03E6", "U+03E8", "U+03EA", "U+03EC",
    "U+03EE", "U+03F4", "U+03F7", "U+03F9", "U+03FA", "U+03FD",
    "U+03FE", "U+03FF", "U+0400", "U+0401", "U+0402", "U+0403",
    "U+0404", "U+0405", "U+0406", "U+0407", "U+0408", "U+0409",
    "U+040A", "U+040B", "U+040C", "U+040D", "U+040E", "U+040F",
    "U+0410", "U+0411", "U+0412", "U+0413", "U+0414", "U+0415",
    "U+0416", "U+0417", "U+0418", "U+0419", "U+041A", "U+041B",
    "U+041C", "U+041D", "U+041E", "U+041F", "U+0420", "U+0421",
    "U+0422", "U+0423", "U+0424", "U+0425", "U+0426", "U+0427",
    "U+0428", "U+0429", "U+042A", "U+042B", "U+042C", "U+042D",
    "U+042E", "U+042F", "U+212A", "U+212B", "U+FF21", "U+FF22",
    "U+FF23", "U+FF24", "U+FF25", "U+FF26", "U+FF27", "U+FF28",
    "U+FF29", "U+FF2A", "U+FF2B", "U+FF2C", "U+FF2D", "U+FF2E",
    "U+FF2F", "U+FF30", "U+FF31", "U+FF32", "U+FF33", "U+FF34",
    "U+FF35", "U+FF36", "U+FF37", "U+FF38", "U+FF39", "U+FF3A"
  >>

LowerTable ==
  <<
    "U+00E0", "U+00E1", "U+00E2", "U+00E3", "U+00E4", "U+00E5",
    "U+00E6", "U+00E7", "U+00E8", "U+00E9", "U+00EA", "U+00EB",
    "U+00EC", "U+00ED", "U+00EE", "U+00EF", "U+00F0", "U+00F1",
    "U+00F2", "U+00F3", "U+00F4", "U+00F5", "U+00F6", "U+00F8",
    "U+00F9", "U+00FA", "U+00FB", "U+00FC", "U+00FD", "U+00FE",
    "U+0371", "U+0373", "U+0377", "U+03F3", "U+03AC", "U+03AD",
    "U+03AE", "U+03AF", "U+03CC", "U+03CD", "U+03CE", "U+03B1",
    "U+03B2", "U+03B3", "U+03B4", "U+03B5", "U+03B6", "U+03B7",
    "U+03B8", "U+03B9", "U+03BA", "U+03BB", "U+03BC", "U+03BD",
    "U+03BE", "U+03BF", "U+03C0", "U+03C1", "U+03C4", "U+03C5",
    "U+03C6", "U+03C7", "U+03C8", "U+03C9", "U+03CA", "U+03CB",
    "U+03D7", "U+03D9", "U+03DB", "U+03DD", "U+03DF", "U+03E1",
    "U+03E3", "U+03E5", "U+03E7", "U+03E9", "U+03EB", "U+03ED",
    "U+03EF", "U+03B8", "U+03F8", "U+03F2", "U+03FB", "U+037B",
    "U+037C", "U+037D", "U+0450", "U+0451", "U+0452", "U+0453",
    "U+0454", "U+0455", "U+0456", "U+0457", "U+0458", "U+0459",
    "U+045A", "U+045B", "U+045C", "U+045D", "U+045E", "U+045F",
    "U+0430", "U+0431", "U+0432", "U+0433", "U+0434", "U+0435",
    "U+0436", "U+0437", "U+0438", "U+0439", "U+043A", "U+043B",
    "U+043C", "U+043D", "U+043E", "U+043F", "U+0440", "U+0441",
    "U+0442", "U+0443", "U+0444", "U+0445", "U+0446", "U+0447",
    "U+0448", "U+0449", "U+044A", "U+044B", "U+044C", "U+044D",
    "U+044E", "U+044F", "k", "U+00E5", "U+FF41", "U+FF42",
    "U+FF43", "U+FF44", "U+FF45", "U+FF46", "U+FF47", "U+FF48",
    "U+FF49", "U+FF4A", "U+FF4B", "U+FF4C", "U+FF4D", "U+FF4E",
    "U+FF4F", "U+FF50", "U+FF51", "U+FF52", "U+FF53", "U+FF54",
    "U+FF55", "U+FF56", "U+FF57", "U+FF58", "U+FF59", "U+FF5A"
  >>

\* The cased letters of the alphabet outside ASCII that are not
\* case-ignorable.
CasedLetters ==
  {
   "U+00AA", "U+00B5", "U+00BA", "U+00C0", "U+00C1", "U+00C2", "U+00C3",
   "U+00C4", "U+00C5", "U+00C6", "U+00C7", "U+00C8", "U+00C9", "U+00CA",
   "U+00CB", "U+00CC", "U+00CD", "U+00CE", "U+00CF", "U+00D0", "U+00D1",
   "U+00D2", "U+00D3", "U+00D4", "U+00D5", "U+00D6", "U+00D8", "U+00D9",
   "U+00DA", "U+00DB", "U+00DC", "U+00DD", "U+00DE", "U+00DF", "U+00E0",
   "U+00E1", "U+00E2", "U+00E3", "U+00E4", "U+00E5", "U+00E6", "U+00E7",
   "U+00E8", "U+00E9", "U+00EA", "U+00EB", "U+00EC", "U+00ED", "U+00EE",
   "U+00EF", "U+00F0", "U+00F1", "U+00F2", "U+00F3", "U+00F4", "U+00F5",
   "U+00F6", "U+00F8", "U+00F9", "U+00FA", "U+00FB", "U+00FC", "U+00FD",
   "U+00FE", "U+00FF", "U+0130", "U+0131", "U+0370", "U+0371", "U+0372",
   "U+0373", "U+0376", "U+0377", "U+037B", "U+037C", "U+037D", "U+037F",
   "U+0386", "U+0388", "U+0389", "U+038A", "U+038C", "U+038E", "U+038F",
   "U+0390", "U+0391", "U+0392", "U+0393", "U+0394", "U+0395", "U+0396",
   "U+0397", "U+0398", "U+0399", "U+039A", "U+039B", "U+039C", "U+039D",
   "U+039E", "U+039F", "U+03A0", "U+03A1", "U+03A3", "U+03A4", "U+03A5",
   "U+03A6", "U+03A7", "U+03A8", "U+03A9", "U+03AA", "U+03AB", "U+03AC",
   "U+03AD", "U+03AE", "U+03AF", "U+03B0", "U+03B1", "U+03B2", "U+03B3",
   "U+03B4", "U+03B5", "U+03B6", "U+03B7", "U+03B8", "U+03B9", "U+03BA",
   "U+03BB", "U+03BC", "U+03BD", "U+03BE", "U+03BF", "U+03C0", "U+03C1",
   "U+03C2", "U+03C3", "U+03C4", "U+03C5", "U+03C6", "U+03C7", "U+03C8",
   "U+03C9", "U+03CA", "U+03CB", "U+03CC", "U+03CD", "U+03CE", "U+03CF",
   "U+03D0", "U+03D1", "U+03D2", "U+03D3", "U+03D4", "U+03D5", "U+03D6",
   "U+03D7", "U+03D8", "U+03D9", "U+03DA", "U+03DB", "U+03DC", "U+03DD",
   "U+03DE", "U+03DF", "U+03E0", "U+03E1", "U+03E2", "U+03E3", "U+03E4",
   "U+03E5", "U+03E6", "U+03E7", "U+03E8", "U+03E9", "U+03EA", "U+03EB",
   "U+03EC", "U+03ED", "U+03EE", "U+03EF", "U+03F0", "U+03F1", "U+03F2",
   "U+03F3", "U+03F4", "U+03F5", "U+03F7", "U+03F8", "U+03F9", "U+03FA",
   "U+03FB", "U+03FC", "U+03FD", "U+03FE", "U+03FF", "U+0400", "U+0401",
   "U+0402", "U+0403", "U+0404", "U+0405", "U+0406", "U+0407", "U+0408",
   "U+0409", "U+040A", "U+040B", "U+040C", "U+040D", "U+040E", "U+040F",
   "U+0410", "U+0411", "U+0412", "U+0413", "U+0414", "U+0415", "U+0416",
   "U+0417", "U+0418", "U+0419", "U+041A", "U+041B", "U+041C", "U+041D",
   "U+041E", "U+041F", "U+0420", "U+0421", "U+0422", "U+0423", "U+0424",
   "U+0425", "U+0426", "U+0427", "U+0428", "U+0429", "U+042A", "U+042B",
   "U+042C", "U+042D", "U+042E", "U+042F", "U+0430", "U+0431", "U+0432",
   "U+0433", "U+0434", "U+0435", "U+0436", "U+0437", "U+0438", "U+0439",
   "U+043A", "U+043B", "U+043C", "U+043D", "U+043E", "U+043F", "U+0440",
   "U+0441", "U+0442", "U+0443", "U+0444", "U+0445", "U+0446", "U+0447",
   "U+0448", "U+0449", "U+044A", "U+044B", "U+044C", "U+044D", "U+044E",
   "U+044F", "U+0450", "U+0451", "U+0452", "U+0453", "U+0454", "U+0455",
   "U+0456", "U+0457", "U+0458", "U+0459", "U+045A", "U+045B", "U+045C",
   "U+045D", "U+045E", "U+045F", "U+212A", "U+212B", "U+FF21", "U+FF22",
   "U+FF23", "U+FF24", "U+FF25", "U+FF26", "U+FF27", "U+FF28", "U+FF29",
   "U+FF2A", "U+FF2B", "U+FF2C", "U+FF2D", "U+FF2E", "U+FF2F", "U+FF30",
   "U+FF31", "U+FF32", "U+FF33", "U+FF34", "U+FF35", "U+FF36", "U+FF37",
   "U+FF38", "U+FF39", "U+FF3A", "U+FF41", "U+FF42", "U+FF43", "U+FF44",
   "U+FF45", "U+FF46", "U+FF47", "U+FF48", "U+FF49", "U+FF4A", "U+FF4B",
   "U+FF4C", "U+FF4D", "U+FF4E", "U+FF4F", "U+FF50", "U+FF51", "U+FF52",
   "U+FF53", "U+FF54", "U+FF55", "U+FF56", "U+FF57", "U+FF58", "U+FF59",
   "U+FF5A"
  }

\* The case-ignorable characters of the alphabet.
CaseIgnorable ==
  {
   "'", ".", ":", "^", "U+0060", "U+00A8", "U+00AD", "U+00AF", "U+00B4",
   "U+00B7", "U+00B8", "U+0307", "U+0374", "U+0375", "U+037A", "U+0384",
   "U+0385", "U+0387"
  }

\* The ASCII characters that toLowerCase leaves as they are.
AsciiUnchanged ==
  {"a","b","c","d","e","f","g","h","i","j","k","l","m",
   "n","o","p","q","r","s","t","u","v","w","x","y","z",
   "0","1","2","3","4","5","6","7","8","9",
   " ","!","#","$","%","&","'","(",")","*","+",",","-",".","/",
   ":",";","<","=",">","?","@","[","]","^","_","U+0060","{","|","}","~"}

\* The lower case of one character, a string.
LowerChar(c) ==
  IF \E i \in 1..Len(UpperChars) : UpperChars[i] = c
  THEN <<LowerChars[CHOOSE i \in 1..Len(UpperChars) : UpperChars[i] = c]>>
  ELSE IF c \in AsciiUnchanged
  THEN <<c>>
  ELSE IF c = "U+0130"
  THEN <<"i", "U+0307">>
  ELSE IF \E i \in 1..Len(UpperTable) : UpperTable[i] = c
  THEN <<LowerTable[CHOOSE i \in 1..Len(UpperTable) : UpperTable[i] = c]>>
  ELSE <<c>>

\* A cased letter that is not case-ignorable.
IsCased(c) ==
  \/ \E i \in 1..Len(UpperChars) : UpperChars[i] = c \/ LowerChars[i] = c
  \/ c \in CasedLetters

\* Final_Sigma: before position i there is a cased letter, with nothing but
\* case-ignorable characters in between, and after it there is none.
RECURSIVE CasedBefore(_, _)
CasedBefore(s, i) ==
  IF i < 1 THEN FALSE
  ELSE IF s[i] \in CaseIgnorable THEN CasedBefore(s, i - 1)
  ELSE IsCased(s[i])

RECURSIVE CasedAfter(_, _)
CasedAfter(s, i) ==
  IF i > Len(s) THEN FALSE
  ELSE IF s[i] \in CaseIgnorable THEN CasedAfter(s, i + 1)
  ELSE IsCased(s[i])

LowerAt(s, i) ==
  IF s[i] = "U+03A3"
  THEN (IF CasedBefore(s, i - 1) /\ ~CasedAfter(s, i + 1)
        THEN <<"U+03C2">> ELSE <<"U+03C3">>)
  ELSE LowerChar(s[i])

RECURSIVE LowerFrom(_, _)
LowerFrom(s, i) ==
  IF i > Len(s) THEN <<>> ELSE LowerAt(s, i) \o LowerFrom(s, i + 1)

\* String.prototype.toLowerCase
toLowerCase(s) == LowerFrom(s, 1)

\* String.prototype.includes
includes(s, sub) ==
  \E k \in 0..(Len(s) - Len(sub)) :
    \A i \in 1..Len(sub) : s[k + i] = sub[i]

IsDigit(c) == \E i \in 1..Len(Digits) : Digits[i] = c
DigitVal(c) == (CHOOSE i \in 1..Len(Digits) : Digits[i] = c) - 1

\* The strings of the program.
Codeforces == <<"C","o","d","e","f","o","r","c","e","s">>
AtCoder == <<"A","t","C","o","d","e","r">>
Luogu == <<"L","u","o","g","u">>
upcoming == <<"u","p","c","o","m","i","n","g">>
coding == <<"c","o","d","i","n","g">>
ended == <<"e","n","d","e","d">>
before == <<"b","e","f","o","r","e">>
finished == <<"f","i","n","i","s","h","e","d">>
ongoing == <<"o","n","g","o","i","n","g">>
today == <<"t","o","d","a","y">>

-----------------------------------------------------------------------------
(* Date: the calendar of ECMAScript time values, in whole seconds.  Every   *)
(* time value the program builds is a whole number of seconds times 1000,   *)
(* so the day and the calendar fields are those of the second.              *)

SecondsPerDay == 86400

\* Day(t) of ECMAScript, for a time in seconds.
Day(t) == t \div SecondsPerDay

\* MakeDay(year, month, 1) + (date - 1): days since the epoch of a civil
\* date of the proleptic Gregorian calendar; a date past the month's end
\* runs over into the next month, as MakeDay does.
DaysFromCivil(y, m, d) ==
  LET yy == IF m <= 2 THEN y - 1 ELSE y
      era == yy \div 400
      yoe == yy - era * 400
      mp == (m + 9) % 12
      doy == (153 * mp + 2) \div 5
      doe == yoe * 365 + yoe \div 4 - yoe \div 100 + doy
  IN era * 146097 + doe - 719468 + (d - 1)

\* YearFromTime, MonthFromTime (1-based here) and DateFromTime of a day number.
CivilFromDays(z) ==
  LET zz == z + 719468
      era == zz \div 146097
      doe == zz - era * 146097
      yoe == (doe - doe \div 1460 + doe \div 36524 - doe \div 146096) \div 365
      doy == doe - (365 * yoe + yoe \div 4 - yoe \div 100)
      mp == (5 * doy + 2) \div 153
      d == doy - (153 * mp + 2) \div 5 + 1
      m == IF mp < 10 THEN mp + 3 ELSE mp - 9
      y == yoe + era * 400 + (IF m <= 2 THEN 1 ELSE 0)
  IN [year |-> y, month |-> m, date |-> d]

\* getFullYear / getMonth / getDate of a Date holding time t (seconds), in
\* the local time zone (local time = UTC + tz seconds).
LocalDate(t, tz) == CivilFromDays(Day(t + tz))

-----------------------------------------------------------------------------
(* The three plugins of the repository *)

Sniffer == "sniffer"        \* src/unnamed/part_000
Contests1 == "contests1"    \* src/unnamed/part_001
Contests0 == "contests0"    \* src/src/index.ts
Variants == {Sniffer, Contests1, Contests0}

\* The phase names a plugin's normalizers write.
PhaseUpcoming(v) == IF v = Contests0 THEN before ELSE upcoming
PhaseCoding(v) == coding
PhaseEnded(v) == IF v = Contests0 THEN finished ELSE ended

Providers == <<Codeforces, AtCoder, Luogu>>

Fulfilled(list) == [status |-> "fulfilled", value |-> list]
Rejected == [status |-> "rejected", value |-> <<>>]

\* A record of the unified Contest interface, before fetchContests tags it.
Contest(name, startTime, duration, phase, url) ==
  [name |-> name, startTime |-> startTime, duration |-> duration,
   phase |-> phase, url |-> url]

-----------------------------------------------------------------------------
(* getCodeforcesContests.  A response is                                    *)
(*   [kind |-> "throw"]     ctx.http.get throws (HTTP error, timeout)       *)
(*   [kind |-> "mismatch"]  no response, status # 'OK', result not an array *)
(*   [kind |-> "ok", result |-> <<raw, ...>>]                               *)
(* and a raw entry is [entry |-> "object" | "null", id, name,               *)
(* startTimeSeconds, durationSeconds].                                      *)

CodeforcesPhase(v, startTime, endTime, nowSec) ==
  IF Gt(Num(nowSec), endTime) THEN PhaseEnded(v)
  ELSE IF Gt(Num(nowSec), startTime) THEN PhaseCoding(v)
  ELSE PhaseUpcoming(v)

CodeforcesRecord(v, raw, nowSec) ==
  LET startTime == raw.startTimeSeconds
      endTime == Add(startTime, raw.durationSeconds)
  IN Contest(raw.name, startTime, raw.durationSeconds,
             CodeforcesPhase(v, startTime, endTime, nowSec),
             <<"https://codeforces.com/contests/", raw.id>>)

\* Reading a property of a null entry throws a TypeError inside map.
MapThrows(rawList) == \E i \in 1..Len(rawList) : rawList[i].entry = "null"

\* getCodeforcesContests without its try/catch: a throw rejects the task.
getCodeforcesContests_NoCatch(v, response, nowSec) ==
  IF response.kind = "throw" THEN Rejected
  ELSE IF response.kind = "mismatch" THEN Fulfilled(<<>>)
  ELSE IF MapThrows(response.result) THEN Rejected
  ELSE Fulfilled([i \in 1..Len(response.result) |->
                    CodeforcesRecord(v, response.result[i], nowSec)])

getCodeforcesContests(v, response, nowSec) ==
  IF response.kind = "throw" THEN Fulfilled(<<>>)            \* catch
  ELSE IF response.kind = "mismatch" THEN Fulfilled(<<>>)
  ELSE IF MapThrows(response.result) THEN Fulfilled(<<>>)    \* catch
  ELSE Fulfilled([i \in 1..Len(response.result) |->
                    CodeforcesRecord(v, response.result[i], nowSec)])

-----------------------------------------------------------------------------
(* getAtcoderContests.  A response is [kind |-> "throw"] or                 *)
(* [kind |-> "ok", rows |-> <<row, ...>>], the rows of                      *)
(* '.table-default tbody tr'; a row is [startTimeText, contestLink,         *)
(* contestName, durationText].  startTimeText is [text |-> "empty"],        *)
(* [text |-> "garbage"] or [text |-> "time", epoch |-> n], a timestamp text *)
(* standing for the instant n that Date parses it to; contestLink is <<>>   *)
(* when the row has no link; durationText is a string.                      *)

\* The index of the first ':' of s from position i on, or Len(s) + 1.
RECURSIVE ColonAt(_, _)
ColonAt(s, i) ==
  IF i > Len(s) THEN Len(s) + 1
  ELSE IF s[i] = ":" THEN i
  ELSE ColonAt(s, i + 1)

\* text.split(':'), the first two parts; the second is absent without ':'.
SplitColon(s) ==
  LET c1 == ColonAt(s, 1)
      c2 == ColonAt(s, c1 + 1)
  IN [first |-> SubSeq(s, 1, c1 - 1),
      hasSecond |-> c1 <= Len(s),
      second |-> IF c1 <= Len(s) THEN SubSeq(s, c1 + 1, c2 - 1) ELSE <<>>]

RECURSIVE DecimalValue(_)
DecimalValue(s) ==
  IF s = <<>> THEN 0
  ELSE 10 * DecimalValue(SubSeq(s, 1, Len(s) - 1)) + DigitVal(s[Len(s)])

\* The value of a digit of a radix up to 16, or 16 when c is no digit.
HexChars == <<"0","1","2","3","4","5","6","7","8","9","a","b","c","d","e","f">>
HexCapitals == <<"0","1","2","3","4","5","6","7","8","9","A","B","C","D","E","F">>

HexVal(c) ==
  IF \E i \in 1..16 : HexChars[i] = c \/ HexCapitals[i] = c
  THEN (CHOOSE i \in 1..16 : HexChars[i] = c \/ HexCapitals[i] = c) - 1
  ELSE 16

\* s is a run of one or more digits of the radix.
IsDigits(s, radix) == s # <<>> /\ \A i \in 1..Len(s) : HexVal(s[i]) < radix

RECURSIVE RadixValue(_, _)
RadixValue(s, radix) ==
  IF s = <<>> THEN 0
  ELSE radix * RadixValue(SubSeq(s, 1, Len(s) - 1), radix) + HexVal(s[Len(s)])

RECURSIVE Pow10(_)
Pow10(n) == IF n = 0 THEN 1 ELSE 10 * Pow10(n - 1)

\* The index of the exponent indicator e or E of s, or 0.
ExponentAt(s) ==
  IF \E i \in 1..Len(s) : s[i] \in {"e", "E"}
  THEN CHOOSE i \in 1..Len(s) : s[i] \in {"e", "E"} /\ \A j \in 1..(i - 1) : s[j] \notin {"e", "E"}
  ELSE 0

\* Number(s), StringToNumber, for the texts of the model, which hold decimal
\* digits, ':' and letters (no sign, no '.', no blank) and whose value is
\* an integer within the range of the model or Infinity: '' is 0; a run of
\* digits has its decimal value; 0x, 0o and 0b (in either case) introduce
\* hexadecimal, octal and binary digits; digits, e or E and digits are a
\* decimal with an exponent; 'Infinity' is Infinity; anything else is NaN.
NumberOf(s) ==
  LET radix == IF Len(s) < 2 \/ s[1] # "0" THEN 10
               ELSE IF s[2] \in {"x", "X"} THEN 16
               ELSE IF s[2] \in {"o", "O"} THEN 8
               ELSE IF s[2] \in {"b", "B"} THEN 2
               ELSE 10
      e == ExponentAt(s)
  IN IF s = <<>> THEN Num(0)
     ELSE IF IsDigits(s, 10) THEN Num(DecimalValue(s))
     ELSE IF s = <<"I","n","f","i","n","i","t","y">> THEN Infinity
     ELSE IF radix # 10 THEN
       (IF IsDigits(SubSeq(s, 3, Len(s)), radix)
        THEN Num(RadixValue(SubSeq(s, 3, Len(s)), radix)) ELSE NaN)
     ELSE IF /\ e > 0
             /\ IsDigits(SubSeq(s, 1, e - 1), 10)
             /\ IsDigits(SubSeq(s, e + 1, Len(s)), 10)
     THEN Num(DecimalValue(SubSeq(s, 1, e - 1))
                * Pow10(DecimalValue(SubSeq(s, e + 1, Len(s)))))
     ELSE NaN

\* a * k for a constant k > 0.
Mul(a, k) ==
  IF IsNum(ToNumber(a)) THEN Num(ToNumber(a).v * k)
  ELSE IF IsInf(ToNumber(a)) THEN ToNumber(a)
  ELSE NaN

parseDuration(text) ==
  LET parts == SplitColon(text)
      hours == NumberOf(parts.first)
      minutes == IF parts.hasSecond THEN NumberOf(parts.second) ELSE Undefined
  IN Add(Mul(hours, 3600), Mul(minutes, 60))

\* new Date(startTimeText).getTime() / 1000
ParseStartTime(startTimeText) ==
  IF startTimeText.text = "time" THEN Num(startTimeText.epoch) ELSE NaN

AtcoderPhase(v, startTime, endTime, nowSec) ==
  IF Lt(Num(nowSec), startTime) THEN PhaseUpcoming(v)
  ELSE IF Lt(Num(nowSec), endTime) THEN PhaseCoding(v)
  ELSE PhaseEnded(v)

\* Rows without a start text or a link are skipped.
AtcoderRowKept(row) == row.startTimeText.text # "empty" /\ row.contestLink # <<>>

AtcoderRecord(v, row, nowSec) ==
  LET startTime == ParseStartTime(row.startTimeText)
      duration == parseDuration(row.durationText)
      endTime == Add(startTime, duration)
  IN Contest(row.contestName, startTime, duration,
             AtcoderPhase(v, startTime, endTime, nowSec),
             <<"https://atcoder.jp", row.contestLink>>)

getAtcoderContests(v, response, nowSec) ==
  IF response.kind = "throw" THEN Fulfilled(<<>>)            \* catch
  ELSE LET kept == SelectSeq(response.rows, AtcoderRowKept)
       IN Fulfilled([i \in 1..Len(kept) |-> AtcoderRecord(v, kept[i], nowSec)])

-----------------------------------------------------------------------------
(* getLuoguContests.  A response is [kind |-> "throw"], [kind |->           *)
(* "mismatch"] (no currentData.contests.result), [kind |-> "notarray"] (a   *)
(* truthy result without map) or [kind |-> "ok", result |-> <<raw, ...>>];  *)
(* a raw entry is [entry, id, name, startTime, endTime].                    *)

LuoguPhase(v, startTime, endTime, nowSec) ==
  IF Gt(Num(nowSec), endTime) THEN PhaseEnded(v)
  ELSE IF Gt(Num(nowSec), startTime) THEN PhaseCoding(v)
  ELSE PhaseUpcoming(v)

LuoguRecord(v, raw, nowSec) ==
  Contest(raw.name, raw.startTime, Sub(raw.endTime, raw.startTime),
          LuoguPhase(v, raw.startTime, raw.endTime, nowSec),
          <<"https://www.luogu.com.cn/contest/", raw.id>>)

\* getLuoguContests without its try/catch: a throw rejects the task.
getLuoguContests_NoCatch(v, response, nowSec) ==
  IF response.kind = "throw" THEN Rejected
  ELSE IF response.kind = "mismatch" THEN Fulfilled(<<>>)
  ELSE IF response.kind = "notarray" THEN Rejected
  ELSE IF MapThrows(response.result) THEN Rejected
  ELSE Fulfilled([i \in 1..Len(response.result) |->
                    LuoguRecord(v, response.result[i], nowSec)])

getLuoguContests(v, response, nowSec) ==
  IF response.kind = "throw" THEN Fulfilled(<<>>)            \* catch
  ELSE IF response.kind = "mismatch" THEN Fulfilled(<<>>)
  ELSE IF response.kind = "notarray" THEN Fulfilled(<<>>)    \* catch
  ELSE IF MapThrows(response.result) THEN Fulfilled(<<>>)    \* catch
  ELSE Fulfilled([i \in 1..Len(response.result) |->
                    LuoguRecord(v, response.result[i], nowSec)])

-----------------------------------------------------------------------------
(* fetchContests, after Promise.all has fulfilled *)

Tag(list, platform) ==
  [i \in 1..Len(list) |->
     [name |-> list[i].name, startTime |-> list[i].startTime,
      duration |-> list[i].duration, phase |-> list[i].phase,
      url |-> list[i].url, platform |-> platform]]

dayStart(cfg, nowSec) == nowSec - cfg.startSearchFrom * SecondsPerDay

\* The retention test with a strict comparison.
Retained_Strict(c, cfg, nowSec) ==
  Gt(Add(c.startTime, c.duration), Num(dayStart(cfg, nowSec)))

\* The retention test written as `!(end < dayStart)`: true of NaN.
Retained_NotBelow(c, cfg, nowSec) ==
  ~Lt(Add(c.startTime, c.duration), Num(dayStart(cfg, nowSec)))

Retained(c, cfg, nowSec) ==
  Ge(Add(c.startTime, c.duration), Num(dayStart(cfg, nowSec)))

fetchContests(cfg, nowSec, cfContests, atcoderContests, luoguContests) ==
  LET allContests == Tag(cfContests, Codeforces) \o Tag(atcoderContests, AtCoder)
                       \o Tag(luoguContests, Luogu)
      Keep(c) == Retained(c, cfg, nowSec)
  IN SelectSeq(allContests, Keep)

-----------------------------------------------------------------------------
(* processContests.  An absent string option is the empty string: both are  *)
(* falsy, and the code only tests `if (options.x)` before using one.        *)

\* Schema default of platformAliases, Object.entries order; also the
\* PLATFORM_ALIASES table of src/src/index.ts.
DefaultAliases ==
  << <<toLowerCase(Codeforces), Codeforces>>,
     << <<"c","f">>, Codeforces>>,
     <<toLowerCase(AtCoder), AtCoder>>,
     << <<"a","t">>, AtCoder>>,
     << <<"a","c">>, AtCoder>>,
     << <<"l","g">>, Luogu>>,
     << <<"U+6D1B","U+8C37">>, Luogu>>,
     <<toLowerCase(Luogu), Luogu>> >>

\* First loop: the value of the first entry whose key, lower-cased, is the
\* input; <<>> (null) when there is none.
MatchAlias(aliases, inputPlatform) ==
  LET hits == {i \in 1..Len(aliases) : toLowerCase(aliases[i][1]) = inputPlatform}
  IN IF hits = {} THEN <<>>
     ELSE aliases[CHOOSE i \in hits : \A j \in hits : i <= j][2]

\* The second loop comparing the names as they are written.
MatchName_CaseSensitive(aliases, inputPlatform) ==
  LET hits == {i \in 1..Len(aliases) : aliases[i][2] = inputPlatform}
  IN IF hits = {} THEN <<>>
     ELSE aliases[CHOOSE i \in hits : \A j \in hits : i <= j][2]

\* Second loop: the first value that, lower-cased, is the input.
MatchName(aliases, inputPlatform) ==
  LET hits == {i \in 1..Len(aliases) : toLowerCase(aliases[i][2]) = inputPlatform}
  IN IF hits = {} THEN <<>>
     ELSE aliases[CHOOSE i \in hits : \A j \in hits : i <= j][2]

\* matchedPlatform: a null and an empty-string match are both falsy.
MatchedPlatform(aliases, platform) ==
  LET inputPlatform == toLowerCase(platform)
      byAlias == MatchAlias(aliases, inputPlatform)
  IN IF byAlias # <<>> THEN byAlias ELSE MatchName(aliases, inputPlatform)

\* The names of the properties that the object literal PLATFORM_ALIASES of
\* src/src/index.ts inherits from Object.prototype and that a lower-cased
\* token can spell: PLATFORM_ALIASES[key] is then a function or an object,
\* which is truthy and equal to no platform.
InheritedProperties ==
  {<<"c","o","n","s","t","r","u","c","t","o","r">>,
   <<"_","_","p","r","o","t","o","_","_">>}

\* The platform stage returns [empty |-> TRUE] for the early `return []`.
PlatformStage(v, list, opts, cfg) ==
  IF opts.platform = <<>> THEN [empty |-> FALSE, list |-> list]
  ELSE IF v = Sniffer THEN
    LET matched == MatchedPlatform(cfg.platformAliases, opts.platform)
        Keep(c) == c.platform = matched
    IN IF matched # <<>> THEN [empty |-> FALSE, list |-> SelectSeq(list, Keep)]
       ELSE [empty |-> TRUE, list |-> <<>>]
  ELSE IF v = Contests1 THEN
    LET Keep(c) == c.platform = opts.platform
    IN [empty |-> FALSE, list |-> SelectSeq(list, Keep)]
  ELSE
    LET platformName == MatchAlias(DefaultAliases, toLowerCase(opts.platform))
        Keep(c) == c.platform = platformName
    IN IF platformName # <<>> THEN [empty |-> FALSE, list |-> SelectSeq(list, Keep)]
       ELSE IF toLowerCase(opts.platform) \in InheritedProperties
       THEN [empty |-> FALSE, list |-> <<>>]
       ELSE [empty |-> FALSE, list |-> list]

\* The phase filter comparing the token as it is written.
PhaseStage_CaseSensitive(list, opts) ==
  LET Keep(c) == includes(toLowerCase(c.phase), opts.phase)
  IN IF opts.phase = <<>> THEN list ELSE SelectSeq(list, Keep)

PhaseStage(list, opts) ==
  LET Keep(c) == includes(toLowerCase(c.phase), toLowerCase(opts.phase))
  IN IF opts.phase = <<>> THEN list ELSE SelectSeq(list, Keep)

\* /^\d{4}-\d{2}-\d{2}$/
dateRegex(s) ==
  /\ Len(s) = 10
  /\ \A i \in {1, 2, 3, 4, 6, 7, 9, 10} : IsDigit(s[i])
  /\ s[5] = "-" /\ s[8] = "-"

\* new Date('YYYY-MM-DD') on V8 (Node): a date-only ISO text is UTC midnight;
\* the month must be 1..12 and the day 1..31, and a day past the month's
\* end runs over into the next month.  NaN otherwise.
DateParse(s) ==
  LET y == DecimalValue(SubSeq(s, 1, 4))
      m == DecimalValue(SubSeq(s, 6, 7))
      d == DecimalValue(SubSeq(s, 9, 10))
  IN IF m \in 1..12 /\ d \in 1..31
     THEN Num(DaysFromCivil(y, m, d) * SecondsPerDay) ELSE NaN

\* targetDate, as a time in seconds; Null when the filter is ignored.
TargetDate(date, nowSec) ==
  IF toLowerCase(date) = today THEN Num(nowSec)
  ELSE IF dateRegex(date) THEN
    (IF IsNum(DateParse(date)) THEN DateParse(date) ELSE Null)
  ELSE Null

SameLocalDay(t1, t2, tz) == LocalDate(t1, tz) = LocalDate(t2, tz)

DateStage(v, list, opts, nowSec, tz) ==
  IF v # Sniffer \/ opts.date = <<>> THEN list
  ELSE LET targetDate == TargetDate(opts.date, nowSec)
           Keep(c) == /\ Truthy(c.startTime) /\ IsNum(c.startTime)
                      /\ SameLocalDay(c.startTime.v, targetDate.v, tz)
       IN IF IsNum(targetDate) THEN SelectSeq(list, Keep) ELSE list

\* The comparator handed to sort.  sort looks at the sign of its result and
\* takes NaN for 0: the v of the difference has that sign.
EndedKey(v) == IF v = Contests0 THEN finished ELSE ended

compare(v, a, b) ==
  IF Truthy(a.startTime) /\ Truthy(b.startTime) THEN Sub(a.startTime, b.startTime).v
  ELSE IF includes(a.phase, coding) THEN -1
  ELSE IF includes(b.phase, coding) THEN 1
  ELSE IF includes(a.phase, EndedKey(v)) THEN 1
  ELSE IF includes(b.phase, EndedKey(v)) THEN -1
  ELSE 0

-----------------------------------------------------------------------------
(* Array.prototype.sort of V8 (TimSort) for fewer than 64 elements: the     *)
(* whole array is one run, CountAndMakeRun followed by BinaryInsertionSort. *)

Reverse(s) == [i \in 1..Len(s) |-> s[Len(s) + 1 - i]]

\* The length of the run that starts the array: idx is the 1-based position
\* of the next element to look at.
RECURSIVE RunLength(_, _, _, _)
RunLength(v, arr, idx, isDescending) ==
  IF idx > Len(arr) THEN idx - 1
  ELSE LET order == compare(v, arr[idx], arr[idx - 1])
       IN IF (isDescending /\ order >= 0) \/ (~isDescending /\ order < 0)
          THEN idx - 1
          ELSE RunLength(v, arr, idx + 1, isDescending)

\* [n |-> run length, arr |-> the array with a descending run reversed]
CountAndMakeRun(v, arr) ==
  LET isDescending == compare(v, arr[2], arr[1]) < 0
      n == RunLength(v, arr, 3, isDescending)
  IN [n |-> n,
      arr |-> IF isDescending
              THEN Reverse(SubSeq(arr, 1, n)) \o SubSeq(arr, n + 1, Len(arr))
              ELSE arr]

\* The insertion point of pivot in arr[left+1 .. right] (0-based left, right).
RECURSIVE BinarySearch(_, _, _, _, _)
BinarySearch(v, arr, pivot, left, right) ==
  IF left >= right THEN left
  ELSE LET mid == left + (right - left) \div 2
       IN IF compare(v, pivot, arr[mid + 1]) < 0
          THEN BinarySearch(v, arr, pivot, left, mid)
          ELSE BinarySearch(v, arr, pivot, mid + 1, right)

\* start is the 0-based index of the next element to insert.
RECURSIVE BinaryInsertionSort(_, _, _)
BinaryInsertionSort(v, arr, start) ==
  IF start >= Len(arr) THEN arr
  ELSE LET pivot == arr[start + 1]
           left == BinarySearch(v, arr, pivot, 0, start)
           moved == SubSeq(arr, 1, left) \o <<pivot>> \o SubSeq(arr, left + 1, start)
                      \o SubSeq(arr, start + 2, Len(arr))
       IN BinaryInsertionSort(v, moved, start + 1)

sort(v, arr) ==
  IF Len(arr) < 2 THEN arr
  ELSE LET run == CountAndMakeRun(v, arr)
       IN BinaryInsertionSort(v, run.arr, run.n)

\* processed.slice(0, end): an undefined end is the length; otherwise
\* ToIntegerOrInfinity(end), where NaN and null are 0, a negative end counts
\* from the back, -Infinity is 0 and +Infinity the length.
slice(list, end) ==
  LET len == Len(list)
      n == ToNumber(end)
      final == IF end.t = "undef" THEN len
               ELSE IF IsInf(n) THEN (IF n.v < 0 THEN 0 ELSE len)
               ELSE IF ~IsNum(n) THEN 0
               ELSE IF n.v < 0 THEN (IF len + n.v < 0 THEN 0 ELSE len + n.v)
               ELSE (IF n.v > len THEN len ELSE n.v)
  IN SubSeq(list, 1, final)

\* options.count || config.defaultMaxContests
EffectiveCount(opts, cfg) ==
  IF Truthy(opts.count) THEN opts.count ELSE Num(cfg.defaultMaxContests)

processContests(v, list, opts, cfg, nowSec, tz) ==
  LET byPlatform == PlatformStage(v, list, opts, cfg)
      byPhase == PhaseStage(byPlatform.list, opts)
      byDate == DateStage(v, byPhase, opts, nowSec, tz)
  IN IF byPlatform.empty THEN <<>>
     ELSE slice(sort(v, byDate), EffectiveCount(opts, cfg))

-----------------------------------------------------------------------------
(* generateOutput.  The output is the greeting drawn at random and one      *)
(* entry for each contest; an entry holds what its lines show.  The texts   *)
(* of the program are Chinese with an ASCII emoticon: the model writes the  *)
(* emoticon of a status text and a short tag for a greeting.                *)

\* Schema default of greetings; also the constant GREETINGS of
\* src/src/index.ts.
DefaultGreetings == <<"rest", "AK", "wink", "come", "long long", "O_O">>

\* Schema default of statusText.
DefaultStatusText ==
  [upcoming |-> "(' - ')", coding |-> "OwO", ended |-> "o_o ...."]

\* STATUS_TEXT of src/src/index.ts, Object.entries order.
STATUS_TEXT ==
  << <<before, DefaultStatusText.upcoming>>,
     <<coding, DefaultStatusText.coding>>,
     <<finished, DefaultStatusText.ended>> >>

\* The status line of a contest; "" when no branch recognises the phase.
StatusText(v, cfg, phase) ==
  IF v = Contests0 THEN
    LET hits == {i \in 1..Len(STATUS_TEXT) : includes(phase, STATUS_TEXT[i][1])}
    IN IF hits = {} THEN ""
       ELSE STATUS_TEXT[CHOOSE i \in hits : \A j \in hits : i <= j][2]
  ELSE IF includes(phase, upcoming) THEN cfg.statusText.upcoming
  ELSE IF includes(phase, IF v = Contests1 THEN ongoing ELSE coding)
       THEN cfg.statusText.coding
  ELSE IF includes(phase, ended) THEN cfg.statusText.ended
  ELSE ""

\* (duration / 60).toFixed(0): the nearest whole number of minutes, a half
\* going away from zero.
Minutes(seconds) ==
  IF seconds >= 0 THEN (seconds + 30) \div 60 ELSE -((30 - seconds) \div 60)

OutputEntry(v, cfg, c) ==
  [platform |-> c.platform,
   name |-> c.name,
   startTime |-> IF Truthy(c.startTime) THEN c.startTime ELSE Undefined,
   duration |-> IF IsInf(c.duration) THEN c.duration
                ELSE IF Truthy(c.duration) THEN Num(Minutes(c.duration.v))
                ELSE Undefined,
   status |-> StatusText(v, cfg, c.phase),
   url |-> c.url]

NoOutput == [greeting |-> "", entries |-> <<>>]

\* The greetings the output draws from: the configured ones, the constant
\* GREETINGS in src/src/index.ts, whose generateOutput takes no config.
Greetings(v, cfg) == IF v = Contests0 THEN DefaultGreetings ELSE cfg.greetings

\* The values of Math.floor(Math.random() * greetings.length) + 1; with no
\* greeting it is 1, an index without element.
GreetingIndices(v, cfg) ==
  IF Greetings(v, cfg) = <<>> THEN {1} ELSE 1..Len(Greetings(v, cfg))

\* The first line: a missing element is undefined, written out 'undefined'.
generateOutput(v, list, cfg, greetingIndex) ==
  [greeting |-> IF greetingIndex \in 1..Len(Greetings(v, cfg))
                THEN Greetings(v, cfg)[greetingIndex] ELSE "undefined",
   entries |-> [i \in 1..Len(list) |-> OutputEntry(v, cfg, list[i])]]

-----------------------------------------------------------------------------
(* The command: apply's action handler.  fetchContests starts the three     *)
(* provider tasks and awaits Promise.all; each task settles when its        *)
(* http.get returns or throws; the continuation of the await filters,       *)
(* processes and replies in one synchronous step.  One instant `now` stands *)
(* for the Date.now() readings of one invocation.                           *)

ProviderIds == 1..3     \* positions in Promise.all: Codeforces, AtCoder, Luogu

\* What a provider task settles to.
Outcome(v, p, response, nowSec) ==
  CASE p = 1 -> getCodeforcesContests(v, response, nowSec)
    [] p = 2 -> getAtcoderContests(v, response, nowSec)
    [] p = 3 -> getLuoguContests(v, response, nowSec)

ReplyNone == "no matching contests"
ReplyError == "error"
ReplyOutput == "output"

\* The state before the command runs, for given inputs.
InitWith(v, cfg, opts, nowSec, tz, responses) ==
  /\ variant = v
  /\ config = cfg
  /\ options = opts
  /\ now = nowSec
  /\ tzOffset = tz
  /\ http = responses
  /\ pc = "idle"
  /\ task = [p \in ProviderIds |-> "unstarted"]
  /\ result = [p \in ProviderIds |-> <<>>]
  /\ contests = <<>>
  /\ processed = <<>>
  /\ reply = ""
  /\ output = NoOutput

\* The user sends `oi`: fetchContests calls the three get...Contests, each
\* of which runs up to its await of ctx.http.get.
Invoke ==
  /\ pc = "idle"
  /\ pc' = "awaiting"
  /\ task' = [p \in ProviderIds |-> "pending"]
  /\ UNCHANGED <<variant, config, options, now, tzOffset, http,
                 result, contests, processed, reply, output>>

\* Provider p's http.get settles and the rest of get...Contests runs.
Settle(p) ==
  /\ task[p] = "pending"
  /\ LET outcome == Outcome(variant, p, http[p], now)
     IN /\ task' = [task EXCEPT ![p] = outcome.status]
        /\ result' = [result EXCEPT ![p] = outcome.value]
  /\ UNCHANGED <<variant, config, options, now, tzOffset, http,
                 pc, contests, processed, reply, output>>

\* Promise.all settles: fulfilled once every task is, rejected as soon as
\* one task is.  The handler's continuation then runs to its reply.
PromiseAllFulfilled == \A p \in ProviderIds : task[p] = "fulfilled"
PromiseAllRejected == \E p \in ProviderIds : task[p] = "rejected"

Join ==
  /\ pc = "awaiting"
  /\ PromiseAllFulfilled \/ PromiseAllRejected
  /\ pc' = "done"
  /\ IF PromiseAllRejected
     THEN /\ reply' = ReplyError                       \* catch in apply
          /\ UNCHANGED <<contests, processed, output>>
     ELSE LET fetched == fetchContests(config, now, result[1], result[2], result[3])
              done == processContests(variant, fetched, options, config, now, tzOffset)
          IN /\ contests' = fetched
             /\ processed' = done
             /\ IF Len(done) = 0
                THEN reply' = ReplyNone /\ UNCHANGED output
                ELSE /\ reply' = ReplyOutput
                     /\ \E g \in GreetingIndices(variant, config) :
                          output' = generateOutput(variant, done, config, g)
  /\ UNCHANGED <<variant, config, options, now, tzOffset, http, task, result>>

Next ==
  \/ Invoke
  \/ \E p \in ProviderIds : Settle(p)
  \/ Join

-----------------------------------------------------------------------------
(* Inputs *)

\* 2025-01-01T12:00:00Z
Now0 == DaysFromCivil(2025, 1, 1) * SecondsPerDay + 12 * 3600

NoOptions == [platform |-> <<>>, phase |-> <<>>, count |-> Undefined, date |-> <<>>]

\* The Schema defaults of Config.
DefaultConfig ==
  [defaultMaxContests |-> 5, startSearchFrom |-> 0, platformAliases |-> DefaultAliases,
   greetings |-> DefaultGreetings, statusText |-> DefaultStatusText]

CfRaw(name, id, startTimeSeconds, durationSeconds) ==
  [entry |-> "object", id |-> id, name |-> name,
   startTimeSeconds |-> startTimeSeconds, durationSeconds |-> durationSeconds]

LgRaw(name, id, startTime, endTime) ==
  [entry |-> "object", id |-> id, name |-> name,
   startTime |-> startTime, endTime |-> endTime]

NullEntry == [entry |-> "null"]

DigitChar(n) == Digits[n + 1]

\* The 'HH:MM' text of a duration of so many minutes.
DurationText(minutes) ==
  LET h == minutes \div 60
      m == minutes % 60
  IN <<DigitChar(h \div 10), DigitChar(h % 10), ":", DigitChar(m \div 10), DigitChar(m % 10)>>

TimeText(epoch) == [text |-> "time", epoch |-> epoch]

AtRow(name, link, startTimeText, durationText) ==
  [contestName |-> name, contestLink |-> link,
   startTimeText |-> startTimeText, durationText |-> durationText]

Throw == [kind |-> "throw"]
Mismatch == [kind |-> "mismatch"]
NotArray == [kind |-> "notarray"]
OkResult(list) == [kind |-> "ok", result |-> list]
OkRows(rows) == [kind |-> "ok", rows |-> rows]

\* All sequences over S of length at most n.
SeqsUpTo(S, n) == UNION {[1..k -> S] : k \in 0..n}

-----------------------------------------------------------------------------
(* Spec: every provider fails or succeeds independently. *)

MaxRecords == 2

CfPool == {CfRaw("cf-live", 1, Num(Now0 - 600), Num(7200)),
           CfRaw("cf-next", 2, Num(Now0 + 3600), Num(7200))}
AtPool == {AtRow("abc-next", <<"/contests/abc">>, TimeText(Now0 + 1800), DurationText(100)),
           AtRow("arc-old", <<"/contests/arc">>, TimeText(Now0 - 90000), DurationText(120))}
LgPool == {LgRaw("lg-live", 5, Num(Now0 - 60), Num(Now0 + 60)),
           LgRaw("lg-old", 6, Num(Now0 - 7200), Num(Now0 - 3600))}

CfResponses == {Throw, Mismatch, OkResult(<<NullEntry>>)}
                 \cup {OkResult(l) : l \in SeqsUpTo(CfPool, MaxRecords)}
AtResponses == {Throw} \cup {OkRows(l) : l \in SeqsUpTo(AtPool, MaxRecords)}
LgResponses == {Throw, Mismatch, NotArray}
                 \cup {OkResult(l) : l \in SeqsUpTo(LgPool, MaxRecords)}

Init ==
  \E ssf \in {0, 1}, cf \in CfResponses, at \in AtResponses, lg \in LgResponses :
    InitWith(Sniffer, [DefaultConfig EXCEPT !.startSearchFrom = ssf], NoOptions,
             Now0, 0, <<cf, at, lg>>)

Spec == Init /\ [][Next]_vars

-----------------------------------------------------------------------------
(* SpecPhase: one record with the same start and duration from each         *)
(* provider, around the two boundaries now = start and now = start + dur.   *)

PhaseSpan == 2          \* minutes before and after now for the start
MaxDurMinutes == 2      \* longest duration, minutes

PhaseResponses(start, minutes) ==
  << OkResult(<<CfRaw("cf", 1, Num(start), Num(minutes * 60))>>),
     OkRows(<<AtRow("at", <<"/contests/at">>, TimeText(start), DurationText(minutes))>>),
     OkResult(<<LgRaw("lg", 3, Num(start), Num(start + minutes * 60))>>) >>

InitPhase ==
  \E k \in (-PhaseSpan)..PhaseSpan, minutes \in 0..MaxDurMinutes, ssf \in {0, 1} :
    InitWith(Sniffer, [DefaultConfig EXCEPT !.startSearchFrom = ssf], NoOptions,
             Now0, 0, PhaseResponses(Now0 + k * 60, minutes))

SpecPhase == InitPhase /\ [][Next]_vars

-----------------------------------------------------------------------------
(* SpecRetention: records that end one second before, at and one second     *)
(* after now - k days, under every startSearchFrom of -MaxSsf..MaxSsf.      *)

MaxSsf == 1

RetentionResponses(k, d1, d2, d3) ==
  LET end == Now0 - k * SecondsPerDay
  IN << OkResult(<<CfRaw("cf", 1, Num(end + d1 - 7200), Num(7200))>>),
        OkRows(<<AtRow("at", <<"/contests/at">>, TimeText(end + d2 - 6000),
                       DurationText(100))>>),
        OkResult(<<LgRaw("lg", 3, Num(end + d3 - 3600), Num(end + d3))>>) >>

InitRetention ==
  \E ssf \in (-MaxSsf)..MaxSsf, k \in (-MaxSsf)..MaxSsf,
     d1 \in {-1, 0, 1}, d2 \in {-1, 0, 1}, d3 \in {-1, 0, 1} :
    InitWith(Sniffer, [DefaultConfig EXCEPT !.startSearchFrom = ssf], NoOptions,
             Now0, 0, RetentionResponses(k, d1, d2, d3))

SpecRetention == InitRetention /\ [][Next]_vars

-----------------------------------------------------------------------------
(* SpecAlias: configured alias tables of at most MaxAliases entries (an     *)
(* object: no key twice) and the default table; platform tokens are the     *)
(* keys, the names in several letter cases and an unknown token; one key is *)
(* a letter outside ASCII.  A single greeting is configured.                *)

MaxAliases == 2

Capitals(s) ==
  [i \in 1..Len(s) |->
     IF \E k \in 1..Len(LowerChars) : LowerChars[k] = s[i]
     THEN UpperChars[CHOOSE k \in 1..Len(LowerChars) : LowerChars[k] = s[i]]
     ELSE s[i]]

AliasKeys == {<<>>, <<"c","f">>, <<"C","F">>, toLowerCase(Codeforces), <<"U+00C4">>}
AliasNames == {<<>>, Codeforces, Luogu, Capitals(Luogu)}

AliasTables ==
  {t \in SeqsUpTo(AliasKeys \X AliasNames, MaxAliases) :
     \A i, j \in 1..Len(t) : i # j => t[i][1] # t[j][1]}
    \cup {DefaultAliases}

PlatformTokens ==
  AliasKeys \cup AliasNames \cup {Capitals(Codeforces), toLowerCase(Luogu),
                                  <<"U+00E4">>, <<"x","y","z">>}

\* One running contest from every platform.
OneEach ==
  << OkResult(<<CfRaw("cf-live", 1, Num(Now0 - 600), Num(7200))>>),
     OkRows(<<AtRow("abc-live", <<"/contests/abc">>, TimeText(Now0 - 1800),
                    DurationText(100))>>),
     OkResult(<<LgRaw("lg-live", 5, Num(Now0 - 60), Num(Now0 + 60))>>) >>

InitAlias ==
  \E table \in AliasTables, token \in PlatformTokens :
    InitWith(Sniffer, [DefaultConfig EXCEPT !.platformAliases = table,
                                            !.greetings = <<"AK">>],
             [NoOptions EXCEPT !.platform = token], Now0, 0, OneEach)

SpecAlias == InitAlias /\ [][Next]_vars

-----------------------------------------------------------------------------
(* SpecVariants: the three plugins of the repository on the same inputs.    *)

VariantTokens == {<<>>, <<"c","f">>, Codeforces, <<"x","y","z">>,
                  <<"c","o","n","s","t","r","u","c","t","o","r">>}

VariantResponses ==
  {<<cf, at, lg>> :
     cf \in {Throw, OneEach[1]},
     at \in {OkRows(<<>>), OneEach[2]},
     lg \in {Mismatch, OneEach[3]}}

InitVariants ==
  \E v \in Variants, token \in VariantTokens, responses \in VariantResponses :
    InitWith(v, DefaultConfig, [NoOptions EXCEPT !.platform = token],
             Now0, 0, responses)

SpecVariants == InitVariants /\ [][Next]_vars

-----------------------------------------------------------------------------
(* SpecCap: counts from -MaxCount to MaxCount and no count, defaults from 1 *)
(* to MaxDefault, lists of up to MaxRecords + 1 Luogu contests.             *)

MaxCount == 3
MaxDefault == 2

CapPool == {LgRaw("lg-a", 1, Num(Now0 - 60), Num(Now0 + 60)),
            LgRaw("lg-b", 2, Num(Now0 + 600), Num(Now0 + 900))}

InitCap ==
  \E count \in {Undefined, Infinity, Neg(Infinity)}
                  \cup {Num(k) : k \in (-MaxCount)..MaxCount},
     default \in 1..MaxDefault,
     list \in SeqsUpTo(CapPool, MaxRecords + 1) :
    InitWith(Sniffer, [DefaultConfig EXCEPT !.defaultMaxContests = default],
             [NoOptions EXCEPT !.count = count], Now0, 0,
             <<OkResult(<<>>), OkRows(<<>>), OkResult(list)>>)

SpecCap == InitCap /\ [][Next]_vars

-----------------------------------------------------------------------------
(* SpecDate: date tokens under several local time zones.  The contests are  *)
(* placed by local wall-clock time: 23:00 on 2025-01-01, noon on            *)
(* 2025-01-02 and on 2025-03-02, and one without a usable start time.       *)

TzOffsets == {-18000, 0, 28800}      \* UTC-5, UTC, UTC+8, in seconds

Text(y, m, d) ==
  <<DigitChar(y \div 1000), DigitChar((y \div 100) % 10), DigitChar((y \div 10) % 10),
    DigitChar(y % 10), "-", DigitChar(m \div 10), DigitChar(m % 10), "-",
    DigitChar(d \div 10), DigitChar(d % 10)>>

DateTokens ==
  {Text(2025, 1, 1), Text(2025, 1, 2), Text(2025, 3, 2), Text(2025, 2, 30),
   Text(2025, 13, 1), Text(2025, 1, 0), Text(2025, 1, 32),
   <<"2","0","2","5","-","1","-","1">>,
   <<"n","o","t","-","a","-","d","a","t","e">>,
   today, Capitals(today)}

\* The instant of a local wall-clock time in the zone tz.
LocalTime(y, m, d, hour, tz) ==
  DaysFromCivil(y, m, d) * SecondsPerDay + hour * 3600 - tz

DatePool(tz) ==
  {LgRaw("late-jan-1", 1, Num(LocalTime(2025, 1, 1, 23, tz)),
                          Num(LocalTime(2025, 1, 1, 23, tz) + 3600)),
   LgRaw("noon-jan-2", 2, Num(LocalTime(2025, 1, 2, 12, tz)),
                          Num(LocalTime(2025, 1, 2, 12, tz) + 3600)),
   LgRaw("noon-mar-2", 3, Num(LocalTime(2025, 3, 2, 12, tz)),
                          Num(LocalTime(2025, 3, 2, 12, tz) + 3600)),
   LgRaw("no-start", 4, Num(0), Num(Now0 + 3600))}

InitDate ==
  \E tz \in TzOffsets, token \in DateTokens :
    \E list \in SeqsUpTo(DatePool(tz), MaxRecords) :
      InitWith(Sniffer, DefaultConfig, [NoOptions EXCEPT !.date = token],
               Now0, tz, <<OkResult(<<>>), OkRows(<<>>), OkResult(list)>>)

SpecDate == InitDate /\ [][Next]_vars

-----------------------------------------------------------------------------
(* SpecSort: lists of up to MaxSortLen Luogu contests, with and without a   *)
(* usable start time, in every order.                                       *)

MaxSortLen == 3

SortPool ==
  {LgRaw("early-live", 1, Num(Now0 - 100), Num(Now0 + 1000)),
   LgRaw("late-live", 2, Num(Now0 - 50), Num(Now0 + 1000)),
   LgRaw("zero-live", 3, Num(0), Num(Now0 + 500)),
   LgRaw("null-over", 4, Null, Num(Now0 - 10)),
   LgRaw("over", 5, Num(Now0 - 7200), Num(Now0 - 3600)),
   LgRaw("next", 6, Num(Now0 + 100), Num(Now0 + 1000))}

InitSort ==
  \E list \in SeqsUpTo(SortPool, MaxSortLen) :
    InitWith(Sniffer, [DefaultConfig EXCEPT !.startSearchFrom = 1], NoOptions,
             Now0, 0, <<OkResult(<<>>), OkRows(<<>>), OkResult(list)>>)

SpecSort == InitSort /\ [][Next]_vars

-----------------------------------------------------------------------------
(* SpecMalformed: well-formed responses of up to MaxEntries entries in      *)
(* which sound entries stand next to malformed ones: a null entry, an entry *)
(* without start time or end time, a row without link, a row whose start    *)
(* time or duration text does not parse.                                    *)

MaxEntries == 2

CfEntries == {CfRaw("cf-live", 1, Num(Now0 - 600), Num(7200)),
              NullEntry,
              CfRaw("cf-no-start", 2, Undefined, Num(7200))}
AtEntries == {AtRow("abc-next", <<"/contests/abc">>, TimeText(Now0 + 1800), DurationText(100)),
              AtRow("no-link", <<>>, TimeText(Now0 + 1800), DurationText(100)),
              AtRow("bad-start", <<"/contests/bad">>, [text |-> "garbage"], DurationText(100)),
              AtRow("bad-duration", <<"/contests/dur">>, TimeText(Now0 + 1800), <<"x">>)}
LgEntries == {LgRaw("lg-live", 5, Num(Now0 - 60), Num(Now0 + 60)),
              NullEntry,
              LgRaw("lg-no-end", 6, Num(Now0 - 60), Undefined)}

InitMalformed ==
  \E cf \in SeqsUpTo(CfEntries, MaxEntries), at \in SeqsUpTo(AtEntries, MaxEntries),
     lg \in SeqsUpTo(LgEntries, MaxEntries) :
    InitWith(Sniffer, DefaultConfig, NoOptions, Now0, 0,
             <<OkResult(cf), OkRows(at), OkResult(lg)>>)

SpecMalformed == InitMalformed /\ [][Next]_vars

-----------------------------------------------------------------------------
(* SpecPhaseFilter: phase tokens (the phase names in several letter cases,  *)
(* parts of them, tokens that match nothing) over lists of up to MaxRecords *)
(* Luogu contests taken from one upcoming, one running and one ended.       *)

PhaseTokens ==
  {<<>>, upcoming, coding, ended, Capitals(upcoming), Capitals(coding),
   <<"E","n","d","e","d">>, <<"i","n","g">>, <<"I","N","G">>, <<"c","o">>,
   <<"d">>, <<"x","y","z">>, coding \o <<"s">>, before, finished,
   <<"U+212A">>, <<"U+0130","N","G">>}

PhasePool == {LgRaw("lg-next", 1, Num(Now0 + 600), Num(Now0 + 900)),
              LgRaw("lg-live", 2, Num(Now0 - 60), Num(Now0 + 60)),
              LgRaw("lg-over", 3, Num(Now0 - 7200), Num(Now0 - 3600))}

InitPhaseFilter ==
  \E token \in PhaseTokens, list \in SeqsUpTo(PhasePool, MaxRecords) :
    InitWith(Sniffer, [DefaultConfig EXCEPT !.startSearchFrom = 1],
             [NoOptions EXCEPT !.phase = token], Now0, 0,
             <<OkResult(<<>>), OkRows(<<>>), OkResult(list)>>)

SpecPhaseFilter == InitPhaseFilter /\ [][Next]_vars

-----------------------------------------------------------------------------
(* SpecUnusable: at most one record from each provider, with a start time   *)
(* that is a number, undefined, NaN (a text Date cannot parse), null or 0,  *)
(* under startSearchFrom from -MaxSsf to MaxSsf and at the two limits of    *)
(* its Schema.                                                              *)

SearchLimit == 15       \* Schema: .min(-15).max(15)

CfStarts == {CfRaw("cf-live", 1, Num(Now0 - 600), Num(7200)),
             CfRaw("cf-no-start", 2, Undefined, Num(7200)),
             CfRaw("cf-null-start", 3, Null, Num(Now0 + 7200)),
             CfRaw("cf-zero-start", 4, Num(0), Num(Now0 + 7200))}
AtStarts == {AtRow("abc-next", <<"/contests/abc">>, TimeText(Now0 + 1800), DurationText(100)),
             AtRow("bad-start", <<"/contests/bad">>, [text |-> "garbage"], DurationText(100)),
             AtRow("bad-duration", <<"/contests/dur">>, TimeText(Now0 + 1800), <<"x">>),
             AtRow("exp-duration", <<"/contests/exp">>, TimeText(Now0 + 1800),
                   <<"0","0",":","1","e","1">>),
             AtRow("endless", <<"/contests/inf">>, TimeText(Now0 + 1800),
                   <<"I","n","f","i","n","i","t","y",":","0","0">>)}
LgStarts == {LgRaw("lg-live", 5, Num(Now0 - 60), Num(Now0 + 60)),
             LgRaw("lg-no-start", 6, Undefined, Num(Now0 + 60)),
             LgRaw("lg-null-start", 7, Null, Num(Now0 + 60)),
             LgRaw("lg-zero-start", 8, Num(0), Num(Now0 + 60))}

InitUnusable ==
  \E ssf \in ((-MaxSsf)..MaxSsf) \cup {-SearchLimit, SearchLimit},
     cf \in SeqsUpTo(CfStarts, 1), at \in SeqsUpTo(AtStarts, 1),
     lg \in SeqsUpTo(LgStarts, 1) :
    InitWith(Sniffer, [DefaultConfig EXCEPT !.startSearchFrom = ssf], NoOptions,
             Now0, 0, <<OkResult(cf), OkRows(at), OkResult(lg)>>)

SpecUnusable == InitUnusable /\ [][Next]_vars

-----------------------------------------------------------------------------
(* SpecStatus: the three plugins of the repository, each given one record   *)
(* from every provider before, at and after its start and its end, so that  *)
(* every normalizer writes every phase it can write; with the default       *)
(* greetings and with none configured.                                      *)

InitStatus ==
  \E v \in Variants, k \in (-PhaseSpan)..PhaseSpan, minutes \in 0..MaxDurMinutes,
     greetings \in {DefaultGreetings, <<>>} :
    InitWith(v, [DefaultConfig EXCEPT !.startSearchFrom = 1, !.greetings = greetings],
             NoOptions, Now0, 0, PhaseResponses(Now0 + k * 60, minutes))

SpecStatus == InitStatus /\ [][Next]_vars

-----------------------------------------------------------------------------
(* What the claims speak of *)

\* Provider p failed: HTTP error or timeout, or a response of unexpected shape.
ProviderFailed(p) ==
  \/ http[p].kind # "ok"
  \/ p \in {1, 3} /\ MapThrows(http[p].result)

\* The normalised records of a provider's well-formed response.
NormalizedRecords(p) ==
  CASE p = 1 -> [i \in 1..Len(http[1].result) |->
                   CodeforcesRecord(variant, http[1].result[i], now)]
    [] p = 2 -> LET kept == SelectSeq(http[2].rows, AtcoderRowKept)
                IN [i \in 1..Len(kept) |-> AtcoderRecord(variant, kept[i], now)]
    [] p = 3 -> [i \in 1..Len(http[3].result) |->
                   LuoguRecord(variant, http[3].result[i], now)]

Contribution(p) ==
  IF ProviderFailed(p) THEN <<>> ELSE Tag(NormalizedRecords(p), Providers[p])

RetainedNow(c) == Retained(c, config, now)

SucceededRetained ==
  SelectSeq(Contribution(1) \o Contribution(2) \o Contribution(3), RetainedNow)

\* C2: whichever providers fail, fetchContests does not reject (the command
\* does not end in the error reply) and resolves with exactly the tagged,
\* retention-filtered records of the providers that succeeded.
C2_FailuresContributeNothing ==
  pc = "done" => reply # ReplyError /\ contests = SucceededRetained

\* C2 witness: Codeforces and Luogu failed, AtCoder's records came through.
C2_Witness ==
  /\ pc = "done"
  /\ ProviderFailed(1) /\ ProviderFailed(3) /\ ~ProviderFailed(2)
  /\ Len(contests) > 0

\* C3: while some provider task has not settled there is no fetched list, no
\* processed list and no reply, whatever the other tasks did; a failed
\* provider does not end the wait.
C3_NoReplyInFlight ==
  (\E p \in ProviderIds : task[p] # "fulfilled") =>
     pc # "done" /\ reply = "" /\ contests = <<>> /\ processed = <<>>

\* C3 witness: Codeforces has failed first, the other two are in flight and
\* the command is still waiting.
C3_Witness ==
  /\ pc = "awaiting"
  /\ http[1].kind = "throw" /\ task[1] = "fulfilled"
  /\ task[2] = "pending" /\ task[3] = "pending"
  /\ reply = ""

\* The records every provider task has produced so far, tagged.
Produced ==
  UNION {{Tag(result[p], Providers[p])[i] : i \in 1..Len(result[p])} :
           p \in ProviderIds}

InList(c, list) == \E i \in 1..Len(list) : list[i] = c

\* The phases the boundary rule allows at instant t for a contest [s, s + d].
RulePhases(s, d, t) ==
  {ph \in {upcoming, coding, ended} :
     \/ ph = upcoming /\ t < s
     \/ ph = coding /\ (t = s \/ (s < t /\ t < s + d))
     \/ ph = ended /\ t >= s + d}

\* C1: every normalizer gives a record with integer start and duration >= 0
\* a phase among upcoming/coding/ended that follows the boundary rule:
\* coding at now = start, ended at now = start + duration.
C1_PhaseBoundaryRule ==
  \A c \in Produced :
    (IsNum(c.startTime) /\ IsNum(c.duration) /\ c.duration.v >= 0) =>
       c.phase \in RulePhases(c.startTime.v, c.duration.v, now)

\* C4: with dayStart = now - startSearchFrom * 86400, fetchContests keeps a
\* record exactly when startTime + duration >= dayStart.
C4_RetentionBoundary ==
  pc = "done" =>
    \A c \in Produced :
      (IsNum(c.startTime) /\ IsNum(c.duration)) =>
        (InList(c, contests) <=>
           c.startTime.v + c.duration.v >= now - config.startSearchFrom * 86400)

\* C4 witness: a negative startSearchFrom, one record ending exactly at
\* dayStart that is kept and one ending a second earlier that is dropped.
C4_Witness ==
  /\ pc = "done"
  /\ config.startSearchFrom < 0
  /\ \E c \in Produced :
       /\ c.startTime.v + c.duration.v = now - config.startSearchFrom * 86400
       /\ InList(c, contests)
  /\ \E c \in Produced :
       /\ c.startTime.v + c.duration.v = now - config.startSearchFrom * 86400 - 1
       /\ ~InList(c, contests)

\* processContests on the fetched list with the platform option replaced.
WithPlatform(token) ==
  processContests(variant, contests, [options EXCEPT !.platform = token],
                  config, now, tzOffset)

CaseVariants(s) == {s, toLowerCase(s), Capitals(s)}

\* The entries of the table whose key is the platform option.
EntriesOfOption ==
  {i \in 1..Len(config.platformAliases) :
     config.platformAliases[i][1] = options.platform}

\* Resolution is unambiguous: keys and names are not empty, keys equal up to
\* letter case map to one name, a key equal up to letter case to a name maps
\* to that name, and names equal up to letter case are one name.
Unambiguous(aliases) ==
  \A i, j \in 1..Len(aliases) :
    /\ aliases[i][1] # <<>> /\ aliases[i][2] # <<>>
    /\ toLowerCase(aliases[i][1]) = toLowerCase(aliases[j][1])
         => aliases[i][2] = aliases[j][2]
    /\ toLowerCase(aliases[i][1]) = toLowerCase(aliases[j][2])
         => aliases[i][2] = aliases[j][2]
    /\ toLowerCase(aliases[i][2]) = toLowerCase(aliases[j][2])
         => aliases[i][2] = aliases[j][2]

\* C5 as stated: for every alias table, the platform option set to an alias
\* key gives the result of the option set to the name the key maps to, in
\* any letter case.
C5_AliasEqualsCanonical ==
  pc = "done" =>
    \A i \in EntriesOfOption :
      \A name \in CaseVariants(config.platformAliases[i][2]) :
        processed = WithPlatform(name)

\* C5 amended: the same, for the alias tables whose resolution is unambiguous.
C5_AliasEqualsCanonicalUnambiguous ==
  (pc = "done" /\ Unambiguous(config.platformAliases)) =>
    \A i \in EntriesOfOption :
      \A name \in CaseVariants(config.platformAliases[i][2]) :
        processed = WithPlatform(name)

\* C5 witness: a configured (not the default) unambiguous table, the option
\* is one of its keys and the filter kept that platform's contest only.
C5_Witness ==
  /\ pc = "done"
  /\ config.platformAliases # DefaultAliases
  /\ Unambiguous(config.platformAliases)
  /\ EntriesOfOption # {}
  /\ Len(processed) = 1 /\ Len(contests) = 3

\* The platform option is no alias key and no name of the table, whatever
\* the letter case.  src/src/index.ts holds its table as PLATFORM_ALIASES.
TableOf(v) == IF v = Contests0 THEN DefaultAliases ELSE config.platformAliases

UnknownPlatform ==
  /\ options.platform # <<>>
  /\ \A i \in 1..Len(TableOf(variant)) :
       /\ toLowerCase(TableOf(variant)[i][1]) # toLowerCase(options.platform)
       /\ toLowerCase(TableOf(variant)[i][2]) # toLowerCase(options.platform)

\* C6: a platform option that matches no alias key and no name gives the
\* empty list and the 'no matching contests' reply, whatever was fetched; it
\* is not treated as no platform filter.
C6_UnknownPlatformIsEmpty ==
  (pc = "done" /\ UnknownPlatform) => processed = <<>> /\ reply = ReplyNone

\* The filtered, sorted list before the cap.
SortedFiltered ==
  LET byPlatform == PlatformStage(variant, contests, options, config)
  IN sort(variant, DateStage(variant, PhaseStage(byPlatform.list, options),
                             options, now, tzOffset))

\* options.count when supplied and positive, else config.defaultMaxContests.
ClaimedCount ==
  IF (IsNum(options.count) \/ IsInf(options.count)) /\ options.count.v > 0
  THEN options.count ELSE Num(config.defaultMaxContests)

\* min(a, b) of a length and a count that may be Infinity.
Min(a, b) == IF IsInf(b) \/ a < b.v THEN a ELSE b.v

\* C7: processContests returns the first min(len, effectiveCount) contests
\* of the sorted, filtered list; effectiveCount is the count when supplied
\* and positive, the configured default when absent, zero or negative.
C7_CapIsFirstEffectiveCount ==
  pc = "done" =>
    processed = SubSeq(SortedFiltered, 1, Min(Len(SortedFiltered), ClaimedCount))

\* The year, month and day a token of the shape YYYY-MM-DD names.
TokenDay(date) ==
  [year |-> DecimalValue(SubSeq(date, 1, 4)),
   month |-> DecimalValue(SubSeq(date, 6, 7)),
   date |-> DecimalValue(SubSeq(date, 9, 10))]

DaysInMonth(y, m) ==
  IF m = 12 THEN 31 ELSE DaysFromCivil(y, m + 1, 1) - DaysFromCivil(y, m, 1)

\* The token is YYYY-MM-DD and names a day of the calendar.
CalendarDate(date) ==
  /\ dateRegex(date)
  /\ TokenDay(date).month \in 1..12
  /\ TokenDay(date).date \in 1..DaysInMonth(TokenDay(date).year, TokenDay(date).month)

\* C8: in every local time zone a date token YYYY-MM-DD keeps exactly the
\* contests whose start falls on that calendar day in local time.
C8_DateKeepsLocalDay ==
  (pc = "done" /\ CalendarDate(options.date)) =>
    \A i \in 1..Len(contests) :
      InList(contests[i], processed) <=>
        /\ Truthy(contests[i].startTime)
        /\ LocalDate(contests[i].startTime.v, tzOffset) = TokenDay(options.date)

\* C9: a date option that is neither 'today' in any letter case nor a
\* YYYY-MM-DD calendar date is ignored: the result is that of the same call
\* without the date option.
C9_InvalidDateIgnored ==
  (/\ pc = "done"
   /\ options.date # <<>>
   /\ toLowerCase(options.date) # today
   /\ ~CalendarDate(options.date)) =>
    processed = processContests(variant, contests, [options EXCEPT !.date = <<>>],
                                config, now, tzOffset)

\* C10: any two returned contests that both have a usable start time appear
\* in ascending order of start time.
C10_UsableStartsAscending ==
  pc = "done" =>
    \A i, j \in 1..Len(processed) :
      (i < j /\ Truthy(processed[i].startTime) /\ Truthy(processed[j].startTime)) =>
        processed[i].startTime.v <= processed[j].startTime.v

\* C11: when all three providers fail, the command ends in the generic
\* failure (error) reply, not in the 'no matching contests' reply of a
\* successful query whose filters match nothing.
C11_AllFailedIsError ==
  (pc = "done" /\ \A p \in ProviderIds : ProviderFailed(p)) => reply = ReplyError

\* A raw entry or row is sound: it is an object with a start time, a
\* duration (an end time) and, for a row, a link, all of them parsable.
SoundEntry(p, raw) ==
  CASE p = 1 -> /\ raw.entry = "object"
                /\ IsNum(raw.startTimeSeconds) /\ IsNum(raw.durationSeconds)
    [] p = 2 -> /\ raw.contestLink # <<>>
                /\ IsNum(ParseStartTime(raw.startTimeText))
                /\ IsNum(parseDuration(raw.durationText))
    [] p = 3 -> /\ raw.entry = "object"
                /\ IsNum(raw.startTime) /\ IsNum(raw.endTime)

\* The entries of provider p's response.
Entries(p) == IF p = 2 THEN http[2].rows ELSE http[p].result

\* The normalised record of a sound entry.
RecordOf(p, raw) ==
  CASE p = 1 -> CodeforcesRecord(variant, raw, now)
    [] p = 2 -> AtcoderRecord(variant, raw, now)
    [] p = 3 -> LuoguRecord(variant, raw, now)

\* The records of the sound entries of provider p's response, in order.
SoundRecords(p) ==
  LET Sound(raw) == SoundEntry(p, raw)
      kept == SelectSeq(Entries(p), Sound)
  IN [i \in 1..Len(kept) |-> RecordOf(p, kept[i])]

\* C12: a normalizer given a well-formed response returns the records of
\* its sound entries, all of them and only them: a malformed entry is
\* omitted alone.
C12_MalformedRecordSkippedAlone ==
  \A p \in ProviderIds :
    (http[p].kind = "ok" /\ task[p] = "fulfilled") => result[p] = SoundRecords(p)

Sign(n) == IF n < 0 THEN -1 ELSE IF n > 0 THEN 1 ELSE 0

\* The comparator on two contests of the list handed to sort.
Cmp(a, b) == compare(variant, a, b)

\* Neither start time is usable together with the other: the comparator
\* falls through to the phases.
NoTimeComparison(a, b) == ~(Truthy(a.startTime) /\ Truthy(b.startTime))

\* C13: over the contests handed to sort, with usable or absent start
\* times and any phases, the comparator is a total preorder:
\* sign(cmp(a, b)) = -sign(cmp(b, a)); cmp(a, b) <= 0 and cmp(b, c) <= 0
\* imply cmp(a, c) <= 0; and two contests both coding (or both ended)
\* without a direct time comparison rank equal.
C13_ComparatorTotalPreorder ==
  pc = "done" =>
    \A i, j, k \in 1..Len(contests) :
      LET a == contests[i]
          b == contests[j]
          c == contests[k]
      IN /\ Sign(Cmp(a, b)) = -Sign(Cmp(b, a))
         /\ (Cmp(a, b) <= 0 /\ Cmp(b, c) <= 0) => Cmp(a, c) <= 0
         /\ (NoTimeComparison(a, b) /\ a.phase = b.phase /\ a.phase \in {coding, ended})
              => Cmp(a, b) = 0

\* sub occurs in s as a contiguous part.
IsSubstring(sub, s) ==
  \E i \in 1..(Len(s) + 1), j \in 0..Len(s) : SubSeq(s, i, j) = sub

\* The contests of the fetched list that satisfy Keep, in the order of the
\* result (ascending start time: every start time here is usable).
Kept(Keep(_)) == sort(variant, SelectSeq(contests, Keep))

PhaseHasToken(c) == IsSubstring(toLowerCase(options.phase), toLowerCase(c.phase))
PhaseIsToken(c) == c.phase = toLowerCase(options.phase)
PhaseHasIng(c) == c.phase \in {upcoming, coding}

\* C14: the phase filter keeps exactly the contests whose phase contains the
\* token as a substring, letter case aside; so a full phase name in any case
\* keeps exactly the contests of that phase, a token found in no phase gives
\* the empty list and the 'no matching contests' reply (no error), and 'ing'
\* keeps the upcoming and the coding contests.
C14_PhaseFilterSubstring ==
  pc = "done" =>
    /\ processed = Kept(PhaseHasToken)
    /\ toLowerCase(options.phase) \in {upcoming, coding, ended}
         => processed = Kept(PhaseIsToken)
    /\ (\A ph \in {upcoming, coding, ended} : ~IsSubstring(toLowerCase(options.phase), ph))
         => processed = <<>> /\ reply = ReplyNone
    /\ toLowerCase(options.phase) = <<"i","n","g">> => processed = Kept(PhaseHasIng)

\* C14 witness: the token is a phase name written in capitals, the fetched
\* list holds contests of that phase and of another, and exactly the former
\* were kept.
C14_Witness ==
  /\ pc = "done"
  /\ options.phase = Capitals(coding)
  /\ \E i \in 1..Len(contests) : contests[i].phase = coding
  /\ \E i \in 1..Len(contests) : contests[i].phase # coding
  /\ Len(processed) > 0
  /\ \A i \in 1..Len(processed) : processed[i].phase = coding

\* C15: the three normalizers assign the same phase to records with the
\* same start time and duration at the same instant, the instants
\* now = start and now = start + duration and a zero duration included.
C15_NormalizersSamePhase ==
  \A c, d \in Produced :
    (c.startTime = d.startTime /\ c.duration = d.duration) => c.phase = d.phase

\* The start time is absent or unparsable: undefined or NaN.
NoStartTime(c) == c.startTime.t \in {"undef", "nan"}

\* C16: a record whose start time is undefined or NaN survives the retention
\* filter under no startSearchFrom, so it is in neither the fetched nor the
\* returned list; a record of the fetched list without a usable (truthy)
\* start time, the only kind that sends the comparator to the phases, has
\* the start time 0 or null.
C16_NoStartTimeNeverRetained ==
  pc = "done" =>
    /\ \A c \in Produced :
         NoStartTime(c) => ~InList(c, contests) /\ ~InList(c, processed)
    /\ \A i \in 1..Len(contests) :
         ~Truthy(contests[i].startTime) => contests[i].startTime \in {Num(0), Null}

\* C16 witness: under a startSearchFrom at its upper limit a record with a
\* NaN start time was produced and dropped, while one with a null and one
\* with a zero start time were retained and went through the sort.
C16_Witness ==
  /\ pc = "done"
  /\ config.startSearchFrom = SearchLimit
  /\ \E c \in Produced : c.startTime = NaN /\ ~InList(c, contests)
  /\ \E i \in 1..Len(processed) : processed[i].startTime = Null
  /\ \E i \in 1..Len(processed) : processed[i].startTime = Num(0)

\* C17: in each of the three plugins every contest of the reply is rendered
\* with a status that is not empty, and a contest in the coding phase with
\* the coding status text.
C17_EveryPhaseHasStatus ==
  (pc = "done" /\ reply = ReplyOutput) =>
    /\ Len(output.entries) = Len(processed)
    /\ \A i \in 1..Len(processed) :
         /\ output.entries[i].status # ""
         /\ processed[i].phase = PhaseCoding(variant)
              => output.entries[i].status = config.statusText.coding

====
